---- MODULE Spec2Model ----
(***************************************************************************)
(* Payment initiation (STK push), callback reconciliation and the gateway  *)
(* access-token cache of the Pandora Gardens backend.                      *)
(*                                                                         *)
(* Time is counted in seconds.  The Payment collection is persistent: it   *)
(* exists before the process starts, so a specification starts from any    *)
(* small collection of documents the Payment schema admits (unique         *)
(* checkoutRequestId, status in the schema's enum).                        *)
(***************************************************************************)
EXTENDS Integers, Sequences, FiniteSets, TLC

\* ------------------------------------------------------------------ bounds
MaxReqs == 2
MaxTicks == 2
TickStep == 1750
MaxLogins == 2

MaxTime == MaxTicks * TickStep

Reqs == 1..MaxReqs

\* ------------------------------------------------------- values and inputs
Undefined == "undefined"

Statuses == {"Pending", "Completed", "Failed"}

\* The checkout ids of the documents a collection may hold at start, in _id
\* order, and an id no document has.
StoredIds == <<"ws_CO_1">>

DocIds == DOMAIN StoredIds

UnknownId == "ws_CO_9"

Receipts == {"ABC123"}

ResultCodes == {0, 1032}

MpesaConsumerSecret == "consumer-secret"

CallbackPath == "/api/v1/mpesa/callback"

AppCallbackPath == "/mpesa-callback"

\* ------------------------------------------------------------------- state
VARIABLES
  payments,    \* the Payment collection: a set of documents
  now,         \* the server clock, in seconds
  tokenCache,  \* the module-level token cache of the mpesa routes
  cb,          \* callback requests in flight, one per slot
  stk,         \* initiation requests in flight, one per slot
  limiter,     \* the stores of the two rate limiters, for the one client
  hist,        \* the history request in flight
  ins,         \* insert operations in flight at the store, one per slot
  val,         \* an initiation body and what the validators made of it
  reply,       \* a gateway answer to a push and the body sent to the caller
  exch,        \* a token exchange with its times
  db,          \* connectDB: where it stands and what it logged
  auth         \* the user account and the login requests in flight

vars ==
  <<payments, now, tokenCache, cb, stk, limiter, hist, ins, val, reply, exch,
    db, auth>>

\* A request is served in the first slot that holds no request in flight; a
\* finished request stays in its slot until the slot is taken again.
Free(slots, r) ==
  /\ slots[r].pc \in {"idle", "done"}
  /\ \A q \in 1..(r - 1) : slots[q].pc \notin {"idle", "done"}

\* ------------------------------------------------------------ rate limits
\* rateLimit({windowMs: 15 * 60 * 1000, ...}), in seconds.
RateLimitWindow == 15 * 60

\* max of the apiLimiter the app mounts in front of the whole mpesa router.
AppLimitMax == 100

\* max of the apiLimiter the mpesa router module puts on /stk-push.
RouterLimitMax == 50

\* The store of one limiter for one client key (req.ip): the hits counted in
\* the current window and the time the window ends.
LimiterStore(hits, resetTime) == [hits |-> hits, resetTime |-> resetTime]

\* store.increment(key): a hit after the window's end opens a new window.
Increment(store, t) ==
  IF t >= store.resetTime
    THEN LimiterStore(1, t + RateLimitWindow)
    ELSE LimiterStore(store.hits + 1, store.resetTime)

\* The middleware after the increment: more hits than max calls the handler
\* that answers 429 instead of next().
RateLimitedOffByOne(store, max) == store.hits > max + 1

RateLimited(store, max) == store.hits > max

\* The limiters key their stores by req.ip.  TheClient is the one client whose
\* entries the model keeps; OneTimeClient stands for any client that sends a
\* single request in a window, whose entry is gone when it could matter again.
TheClient == "client"

OneTimeClient == "one-time client"

\* The entries of TheClient in the two stores; sent: the requests TheClient
\* has sent to the mpesa router in the current window of the app's limiter;
\* senders: the clients that send the requests of this behaviour.
LimiterState(app, router, sent, senders) ==
  [app |-> app, router |-> router, sent |-> sent, senders |-> senders]

\* The entry of key ip in a store, before the increment.
EntryOf(store, ip) == IF ip = TheClient THEN store ELSE LimiterStore(0, 0)

\* A request of client ip arrives at the app's limiter.
AppArrive(l, ip, t) ==
  IF ip = TheClient
    THEN [l EXCEPT !.app = Increment(l.app, t),
                   !.sent = IF t >= l.app.resetTime THEN 1 ELSE l.sent + 1]
    ELSE l

AppLimited(l, ip, t) ==
  RateLimited(Increment(EntryOf(l.app, ip), t), AppLimitMax)

\* A request passed on by the app's limiter arrives at the router's limiter.
RouterArrive(l, ip, t) ==
  IF ip = TheClient THEN [l EXCEPT !.router = Increment(l.router, t)] ELSE l

RouterLimited(l, ip, t) ==
  RateLimited(Increment(EntryOf(l.router, ip), t), RouterLimitMax)

\* TheClient sends at most MaxWindowReqs requests in one window.
MaxWindowReqs == MaxReqs

CanSend(l, ip, t) ==
  ip # TheClient \/ t >= l.app.resetTime \/ l.sent < MaxWindowReqs

\* ---------------------------------------------------------- Payment schema
\* One document of the Payment collection.
PaymentDoc(id, cid, status, receipt, created, updated) ==
  [id |-> id, phone |-> "254712345678", amount |-> 500,
   mpesaReceiptNumber |-> receipt, status |-> status,
   checkoutRequestId |-> cid, createdAt |-> created, updatedAt |-> updated]

\* The unique index on checkoutRequestId, and unique _id.
UniqueIndex(docs) ==
  \A p, q \in docs :
    (p.id = q.id \/ p.checkoutRequestId = q.checkoutRequestId) => p = q

\* Documents matching the filter {checkoutRequestId: cid}.
Matching(docs, cid) == {p \in docs : p.checkoutRequestId = cid}

\* The document findOne picks: the first match in _id order.
FirstMatch(docs, cid) ==
  CHOOSE p \in Matching(docs, cid) :
    \A q \in Matching(docs, cid) : p.id <= q.id

\* Payment.findOneAndUpdate({checkoutRequestId: cid}, {status: status}) on a
\* schema with timestamps: one atomic store operation; without a match the
\* collection is left as it is (no upsert).
FindOneAndUpdateUpsert(docs, cid, status, t) ==
  IF Matching(docs, cid) = {}
    THEN docs \cup {PaymentDoc(Len(StoredIds) + 1, cid, status, Undefined, t, t)}
    ELSE LET p == FirstMatch(docs, cid)
         IN (docs \ {p}) \cup {[p EXCEPT !.status = status, !.updatedAt = t]}

FindOneAndUpdate(docs, cid, status, t) ==
  IF Matching(docs, cid) = {}
    THEN docs
    ELSE LET p == FirstMatch(docs, cid)
         IN (docs \ {p}) \cup {[p EXCEPT !.status = status, !.updatedAt = t]}

\* insertOne of a document into the collection under the unique index on
\* checkoutRequestId: the store applies it in one step, and a document whose
\* key is already in the index is refused with a duplicate-key error.
InsertOneNoIndex(docs, doc) == [docs |-> docs \cup {doc}, result |-> "ok"]

InsertOne(docs, doc) ==
  IF Matching(docs, doc.checkoutRequestId) # {}
    THEN [docs |-> docs, result |-> "E11000 duplicate key"]
    ELSE [docs |-> docs \cup {doc}, result |-> "ok"]

\* The checkout ids inserts carry: one a stored document may have, one none
\* has.
InsertIds == {StoredIds[1], "ws_CO_2"}

IdleInsert ==
  [pc |-> "idle", doc |-> PaymentDoc(0, Undefined, "Pending", Undefined, 0, 0),
   result |-> "none"]

\* The _id of a new document: one no document and no insert in flight has.
NewObjectId(docs, slots) ==
  CHOOSE n \in 1..(Cardinality(docs) + Len(slots) + Len(StoredIds) + 1) :
    /\ \A p \in docs : p.id # n
    /\ \A q \in DOMAIN slots : slots[q].pc = "pending" => slots[q].doc.id # n
    /\ \A m \in 1..(n - 1) :
         \/ \E p \in docs : p.id = m
         \/ \E q \in DOMAIN slots :
              slots[q].pc = "pending" /\ slots[q].doc.id = m

\* insertPending(record): a Pending record with the gateway's checkout id is
\* handed to the store.
InsertPending(r) ==
  /\ Free(ins, r)
  /\ \E cid \in InsertIds :
       ins' = [ins EXCEPT ![r] =
                 [pc |-> "pending",
                  doc |-> PaymentDoc(NewObjectId(payments, ins), cid,
                                     "Pending", Undefined, now, now),
                  result |-> "none"]]
  /\ UNCHANGED <<payments, now, tokenCache, cb, stk, limiter, hist, val,
                 reply, exch, db, auth>>

\* The store applies the insert of slot r.
InsertApply(r) ==
  /\ ins[r].pc = "pending"
  /\ LET out == InsertOne(payments, ins[r].doc)
     IN /\ payments' = out.docs
        /\ ins' = [ins EXCEPT ![r].pc = "done", ![r].result = out.result]
  /\ UNCHANGED <<now, tokenCache, cb, stk, limiter, hist, val,
                 reply, exch, db, auth>>

\* --------------------------------------------------------------- callbacks
\* crypto.createHmac('sha256', secret).update(rawBody).digest('base64'),
\* as an ideal MAC: equal digests only for equal key and equal body.
Hmac(secret, rawBody) == <<"hmac-sha256", secret, rawBody>>

NoSignature == <<"hmac-sha256", "", "">>

\* The gateway envelope {Body: {stkCallback: {...}}}; wellFormed is FALSE for a
\* body without Body.stkCallback.
CallbackBody(cid, rc) ==
  [wellFormed |-> TRUE, CheckoutRequestID |-> cid, ResultCode |-> rc,
   MpesaReceiptNumber |-> IF rc = 0 THEN "ABC123" ELSE Undefined]

CallbackBodies ==
  {CallbackBody(StoredIds[d], rc) : d \in DocIds, rc \in ResultCodes}
  \cup
  {CallbackBody(UnknownId, 0),
   [wellFormed |-> FALSE, CheckoutRequestID |-> Undefined, ResultCode |-> 0,
    MpesaReceiptNumber |-> Undefined]}

MalformedBody == CHOOSE b \in CallbackBodies : ~b.wellFormed

\* The x-mpesa-signature header a sender may attach to a body.
SignatureHeaders(body) ==
  {Hmac(MpesaConsumerSecret, body), Hmac("guessed-secret", body)}

Response(status, code, desc) ==
  [status |-> status, ResultCode |-> code, ResultDesc |-> desc]

NoResponse == Response(0, -1, "")

Ack == Response(200, 0, "Success")

\* The default answer of a limiter whose max is exceeded.
TooManyRequests == Response(429, -1, "Too many requests")

\* The global error handler of the app: a callback path is answered 200 with
\* ResultCode 1, any other path with the error's status or 500.
PathIsCallback(path) == path = CallbackPath

GlobalErrorHandlerNoCallbackCase(path, errStatus) ==
  Response(IF errStatus # 0 THEN errStatus ELSE 500, -1, "error")

GlobalErrorHandler(path, errStatus) ==
  IF PathIsCallback(path)
    THEN Response(200, 1, "Service unavailable")
    ELSE Response(IF errStatus # 0 THEN errStatus ELSE 500, -1, "error")

IdleCallback ==
  [pc |-> "idle", path |-> CallbackPath, body |-> MalformedBody,
   signature |-> NoSignature, dbOp |-> "none", resp |-> NoResponse]

\* POST /callback of the mpesa router behind the app's limiter, up to its
\* first await: destructure the body, and on ResultCode 0 issue the update;
\* otherwise acknowledge.  A thrown TypeError goes through asyncHandler to the
\* global error handler.
CallbackStart(r) ==
  /\ Free(cb, r)
  /\ \E ip \in limiter.senders :
       /\ CanSend(limiter, ip, now)
       /\ limiter' = AppArrive(limiter, ip, now)
       /\ \E body \in CallbackBodies : \E sig \in SignatureHeaders(body) :
            LET c == [IdleCallback EXCEPT !.body = body, !.signature = sig] IN
            cb' = [cb EXCEPT ![r] =
                     IF AppLimited(limiter, ip, now)
                       THEN [c EXCEPT !.pc = "done", !.resp = TooManyRequests]
                     ELSE IF ~body.wellFormed
                       THEN [c EXCEPT
                               !.pc = "done",
                               !.resp = GlobalErrorHandler(CallbackPath, 0)]
                     ELSE IF body.ResultCode = 0
                       THEN [c EXCEPT !.pc = "update"]
                       ELSE [c EXCEPT !.pc = "done", !.resp = Ack]]
  /\ UNCHANGED <<payments, now, tokenCache, stk, hist, ins, val,
                 reply, exch, db, auth>>

\* The store executes the update and the handler acknowledges.
CallbackUpdateMarksFailed(r) ==
  /\ cb[r].pc = "update"
  /\ payments' = FindOneAndUpdate(payments, cb[r].body.CheckoutRequestID,
                                  "Failed", now)
  /\ cb' = [cb EXCEPT ![r].pc = "done", ![r].dbOp = "ok", ![r].resp = Ack]
  /\ UNCHANGED <<now, tokenCache, stk, limiter, hist, ins, val,
                 reply, exch, db, auth>>

CallbackUpdate(r) ==
  /\ cb[r].pc = "update"
  /\ payments' = FindOneAndUpdate(payments, cb[r].body.CheckoutRequestID,
                                  "Completed", now)
  /\ cb' = [cb EXCEPT ![r].pc = "done", ![r].dbOp = "ok", ![r].resp = Ack]
  /\ UNCHANGED <<now, tokenCache, stk, limiter, hist, ins, val,
                 reply, exch, db, auth>>

\* The store operation fails (connection lost, timeout): the rejection goes
\* through asyncHandler to the global error handler.
CallbackUpdateFails(r) ==
  /\ cb[r].pc = "update"
  /\ cb' = [cb EXCEPT ![r].pc = "done", ![r].dbOp = "error",
                      ![r].resp = GlobalErrorHandler(CallbackPath, 0)]
  /\ UNCHANGED <<payments, now, tokenCache, stk, limiter, hist, ins, val,
                 reply, exch, db, auth>>

\* POST /mpesa-callback of the app: verify the signature over the raw body,
\* then acknowledge; the transaction itself is not processed.
AppCallback(r) ==
  /\ Free(cb, r)
  /\ \E body \in {CallbackBody(UnknownId, 0)} :
     \E sig \in SignatureHeaders(body) :
       LET c == [IdleCallback EXCEPT !.path = AppCallbackPath,
                                     !.body = body, !.signature = sig] IN
       cb' = [cb EXCEPT ![r] =
                IF Hmac(MpesaConsumerSecret, body) # sig
                  THEN [c EXCEPT !.pc = "done", !.resp = Response(401, -1, "")]
                  ELSE [c EXCEPT !.pc = "done", !.resp = Ack]]
  /\ UNCHANGED <<payments, now, tokenCache, stk, limiter, hist, ins, val,
                 reply, exch, db, auth>>

\* ------------------------------------------------------------------- clock
Tick ==
  /\ now + TickStep <= MaxTime
  /\ now' = now + TickStep
  /\ UNCHANGED <<payments, tokenCache, cb, stk, limiter, hist, ins, val,
                 reply, exch, db, auth>>

\* ------------------------------------------------------ access-token cache
TokenTTL == 3500

\* The token the gateway issues for an exchange answered at time t.
IssuedToken(t) == <<"access-token", t>>

UndefinedToken == <<"undefined", 0>>

\* What the token endpoint may answer: a body with access_token, a 2xx body
\* without one, an HTTP 4xx or 5xx, or no answer at all (timeout, network).
ExchangeOutcomes == {"ok", "ok_no_token", "http_4xx", "http_5xx", "network"}

\* moment().isBefore(expires)
IsBefore(t, expires) == t < expires

\* tokenCache && moment().isBefore(tokenCache.expires)
CacheHitIgnoringExpiry(cache, t) == cache.present

CacheHit(cache, t) == cache.present /\ IsBefore(t, cache.expires)

\* tokenCache = {token, expires: moment().add(tokenTTL, 'seconds')}
NewCacheEntry(token, t) ==
  [present |-> TRUE, token |-> token, expires |-> t + TokenTTL]

\* The access_token field of the exchange response body.
AccessTokenOf(outcome, tok) == IF outcome = "ok" THEN tok ELSE UndefinedToken

\* getAccessToken of routes/mpesaRoutes.js after the exchange answered: a
\* status below 500 resolves, and a body without access_token throws.
RoutesExchangeThrows(outcome) == outcome # "ok"

\* getAccessToken of the mpesa router module after the exchange answered: only
\* a non-2xx status or a network error throws; the body is not inspected.
RouterExchangeThrows(outcome) == outcome \in {"http_4xx", "http_5xx", "network"}

\* ------------------------------------------------------ exchange and time
\* expires_in of the exchange response, in seconds: what the gateway
\* documents, and values a gateway is free to advertise instead.
AdvertisedLifetimes == {3599, 3600, 3500, 3000}

\* The token of an exchange response: issued at a time, with the lifetime
\* advertised for it.
TimedToken(issuedAt, expiresIn) == <<"access-token", issuedAt, expiresIn>>

IssuedAt(token) == token[2]

ExpiresIn(token) == token[3]

\* timeout of the axios.get of getAccessToken, in seconds: 15000 ms in
\* routes/mpesaRoutes.js, 10000 ms in the mpesa router module.
ExchangeTimeout(route) == IF route = "routes" THEN 15 ELSE 10

\* The time a request or a response may spend on the way in one step.
TransitSteps == {2, 9}

IdleExchange(route) ==
  [pc |-> "idle", route |-> route, calls |-> 0, sentAt |-> 0,
   token |-> UndefinedToken, fromCache |-> FALSE, returnedAt |-> 0]

\* getAccessToken up to its first await: a cache hit returns the cached
\* token, a miss sends the exchange request.
ExchangeCall ==
  /\ exch.pc \in {"idle", "done"}
  /\ exch.calls < MaxReqs
  /\ exch' = IF CacheHit(tokenCache, now)
               THEN [exch EXCEPT !.pc = "done", !.calls = exch.calls + 1,
                                 !.token = tokenCache.token,
                                 !.fromCache = TRUE, !.returnedAt = now]
               ELSE [exch EXCEPT !.pc = "sent", !.calls = exch.calls + 1,
                                 !.token = UndefinedToken,
                                 !.fromCache = FALSE, !.sentAt = now]
  /\ UNCHANGED <<payments, now, tokenCache, cb, stk, limiter, hist, ins, val,
                 reply, db, auth>>

\* The gateway issues a token and sends the response.
GatewayIssues ==
  /\ exch.pc = "sent"
  /\ \E expiresIn \in AdvertisedLifetimes :
       exch' = [exch EXCEPT !.pc = "issued",
                            !.token = TimedToken(now, expiresIn)]
  /\ UNCHANGED <<payments, now, tokenCache, cb, stk, limiter, hist, ins, val,
                 reply, db, auth>>

\* Time passes while the request or the response is on the way, within the
\* timeout of the call.
Transit ==
  /\ exch.pc \in {"sent", "issued"}
  /\ \E d \in TransitSteps :
       /\ now + d - exch.sentAt < ExchangeTimeout(exch.route)
       /\ now' = now + d
  /\ UNCHANGED <<payments, tokenCache, cb, stk, limiter, hist, ins, val,
                 reply, exch, db, auth>>

\* The response arrives: tokenCache = {token, expires: moment().add(3500,
\* 'seconds')}, and the token is returned.
ExchangeArrives ==
  /\ exch.pc = "issued"
  /\ tokenCache' = NewCacheEntry(exch.token, now)
  /\ exch' = [exch EXCEPT !.pc = "done", !.returnedAt = now]
  /\ UNCHANGED <<payments, now, cb, stk, limiter, hist, ins, val,
                 reply, db, auth>>

\* --------------------------------------------------------------- initiation
\* A phone number is the sequence of its characters.
Digits == {"0", "1", "2", "3", "4", "5", "6", "7", "8", "9"}

Phone7 == <<"2", "5", "4", "7", "1", "2", "3", "4", "5", "6", "7", "8">>

PhoneShort == <<"1", "2", "3", "4", "5">>

\* The amount of a request body is a JSON value: its type, whether Number(v)
\* is a number (not NaN), and Number(v) in tenths of a unit.
Amount(tenths) == [type |-> "number", numeric |-> TRUE, tenths |-> tenths]

\* The string "abc".
NotANumber == [type |-> "string", numeric |-> FALSE, tenths |-> 0]

\* A string of digits, such as "500".
NumericString(tenths) ==
  [type |-> "string", numeric |-> TRUE, tenths |-> tenths]

\* true: Number(true) is 1.
BoolTrue == [type |-> "boolean", numeric |-> TRUE, tenths |-> 10]

\* No amount in the body: Number(undefined) is NaN.
NoAmount == [type |-> "undefined", numeric |-> FALSE, tenths |-> 0]

\* The request bodies {phone, amount} sent to /stk-push.
StkBodies ==
  {[phone |-> Phone7, amount |-> Amount(5000)],
   [phone |-> PhoneShort, amount |-> Amount(0)]}

AllDigits(p, from) == \A i \in from..Len(p) : p[i] \in Digits

\* /^254[17]\d{8}$/
RoutesPhoneRegex(p) ==
  /\ Len(p) = 12
  /\ p[1] = "2" /\ p[2] = "5" /\ p[3] = "4"
  /\ p[4] \in {"1", "7"}
  /\ AllDigits(p, 5)

\* config.validation.phoneRegex: /^254(7\d{8}|1\d{8})$/
ConfigPhoneRegex(p) ==
  /\ Len(p) = 12
  /\ p[1] = "2" /\ p[2] = "5" /\ p[3] = "4"
  /\ \/ p[4] = "7" /\ AllDigits(p, 5)
     \/ p[4] = "1" /\ AllDigits(p, 5)

\* /^2547\d{8}$/
HandlerPhoneRegex(p) ==
  /\ Len(p) = 12
  /\ p[1] = "2" /\ p[2] = "5" /\ p[3] = "4" /\ p[4] = "7"
  /\ AllDigits(p, 5)

\* The 400 of the /stk-push handler of routes/mpesaRoutes.js, or "ok".
RoutesValidate(phone, amount) ==
  IF ~RoutesPhoneRegex(phone) THEN "INVALID_PHONE"
  ELSE IF ~amount.numeric \/ amount.tenths < 10 THEN "INVALID_AMOUNT"
  ELSE "ok"

\* validateSTKRequest: phone matches the configured pattern, and amount, turned
\* into a string, isFloat with min 1.
ValidateSTKRequest(phone, amount) ==
  /\ ConfigPhoneRegex(phone)
  /\ amount.type \in {"number", "string"}
  /\ amount.numeric /\ amount.tenths >= 10

\* The checks at the head of stkPush.
StkPushChecks(phone, amount) ==
  /\ HandlerPhoneRegex(phone)
  /\ ~(amount.tenths = 0 \/ ~amount.numeric \/ amount.tenths <= 0)

\* Amount of the push payload: parseInt(amount) in stkPush of the mpesa router
\* module, Math.floor(amount) in routes/mpesaRoutes.js; the same integer for
\* the amounts the validators let pass.
PayloadAmount(amount) == amount.tenths \div 10

\* What the push endpoint may answer: accepted (ResponseCode "0" with a
\* CheckoutRequestID), a 2xx with a non-zero ResponseCode, an HTTP 4xx or 5xx
\* with an error body, or no answer.
PushOutcomes == {"accepted", "rejected", "http_4xx", "http_5xx", "network"}

GatewayIds == {"ws_CO_2"}

StkResponse(status, cid, kind) ==
  [status |-> status, checkoutRequestId |-> cid, kind |-> kind]

NoStkResponse == StkResponse(0, Undefined, "none")

IdleStk ==
  [pc |-> "idle", route |-> "routes", phone |-> PhoneShort,
   amount |-> NotANumber, token |-> UndefinedToken, exchanges |-> 0,
   pushes |-> 0,
   docs0 |-> {}, resp |-> NoStkResponse]

\* getAccessToken up to its first await, called for the request in slot s:
\* a cache hit returns the cached token, a miss sends one exchange request.
GetAccessTokenCall(s) ==
  IF CacheHit(tokenCache, now)
    THEN [s EXCEPT !.token = tokenCache.token, !.pc = "gotToken"]
    ELSE [s EXCEPT !.exchanges = s.exchanges + 1, !.pc = "token"]

\* The request is answered; its token is not used again.
Answer(s, resp) ==
  [s EXCEPT !.pc = "done", !.token = UndefinedToken, !.resp = resp]

\* The /stk-push handler of routes/mpesaRoutes.js up to its await of the push:
\* validate, build the payload and send it.
RoutesHandler(s) ==
  LET v == RoutesValidate(s.phone, s.amount)
  IN IF v # "ok"
       THEN Answer(s, StkResponse(400, Undefined, v))
       ELSE [s EXCEPT !.pc = "push", !.pushes = s.pushes + 1]

\* stkPush of the mpesa router module from the token on: build the payload and
\* send it.
RouterSendPush(s) == [s EXCEPT !.pc = "push", !.pushes = s.pushes + 1]

\* The 429 of a limiter on /stk-push.
StkTooManyRequests == StkResponse(429, Undefined, "Too many requests")

\* POST /stk-push of routes/mpesaRoutes.js behind the app's limiter:
\* darajaAuth obtains the token, then the handler runs.
StkPushRoutes(r) ==
  /\ Free(stk, r)
  /\ \E ip \in limiter.senders :
       /\ CanSend(limiter, ip, now)
       /\ limiter' = AppArrive(limiter, ip, now)
       /\ \E body \in StkBodies :
            LET s0 == [IdleStk EXCEPT !.route = "routes",
                                      !.phone = body.phone,
                                      !.amount = body.amount,
                                      !.docs0 = payments]
                s == GetAccessTokenCall(s0)
            IN stk' = [stk EXCEPT ![r] =
                         IF AppLimited(limiter, ip, now)
                           THEN Answer(s0, StkTooManyRequests)
                         ELSE IF s.pc = "gotToken" THEN RoutesHandler(s)
                         ELSE s]
  /\ UNCHANGED <<payments, now, tokenCache, cb, hist, ins, val,
                 reply, exch, db, auth>>

\* POST /stk-push of the mpesa router module behind the app's limiter: the
\* router's apiLimiter, validateSTKRequest, then stkPush: its own checks, then
\* getAccessToken.
StkPushRouter(r) ==
  /\ Free(stk, r)
  /\ \E ip \in limiter.senders :
     LET atApp == AppArrive(limiter, ip, now)
         appLimited == AppLimited(limiter, ip, now)
         limited == appLimited \/ RouterLimited(limiter, ip, now)
     IN /\ CanSend(limiter, ip, now)
        /\ limiter' = IF appLimited THEN atApp
                      ELSE RouterArrive(atApp, ip, now)
        /\ \E body \in StkBodies :
             LET s0 == [IdleStk EXCEPT !.route = "router",
                                       !.phone = body.phone,
                                       !.amount = body.amount,
                                       !.docs0 = payments]
                 s == GetAccessTokenCall(s0)
             IN stk' = [stk EXCEPT ![r] =
                  IF limited
                    THEN Answer(s0, StkTooManyRequests)
                  ELSE IF ~ValidateSTKRequest(body.phone, body.amount)
                    THEN Answer(s0, StkResponse(400, Undefined, "errors"))
                  ELSE IF ~StkPushChecks(body.phone, body.amount)
                    THEN Answer(s0, StkResponse(400, Undefined, "error"))
                  ELSE IF s.pc = "gotToken" THEN RouterSendPush(s) ELSE s]
  /\ UNCHANGED <<payments, now, tokenCache, cb, hist, ins, val,
                 reply, exch, db, auth>>

\* The token endpoint answers the exchange of the request in slot r: what
\* becomes of the cache and of the request, for each outcome.
ExchangeResponse(r) ==
  /\ stk[r].pc = "token"
  /\ LET s == stk[r]
         After(outcome) ==
           LET token == AccessTokenOf(outcome, IssuedToken(now))
               throws == IF s.route = "routes"
                           THEN RoutesExchangeThrows(outcome)
                           ELSE RouterExchangeThrows(outcome)
               got == [s EXCEPT !.token = token, !.pc = "gotToken"]
           IN [cache |-> IF throws THEN tokenCache
                         ELSE NewCacheEntry(token, now),
               slot |-> IF throws
                          THEN Answer(s, IF s.route = "routes"
                                 THEN StkResponse(503, Undefined,
                                                  "SERVICE_UNAVAILABLE")
                                 ELSE StkResponse(400, Undefined,
                                        "MPesa STK Push request failed"))
                        ELSE IF s.route = "routes" THEN RoutesHandler(got)
                        ELSE RouterSendPush(got)]
     IN \E after \in {After(outcome) : outcome \in ExchangeOutcomes} :
          /\ tokenCache' = after.cache
          /\ stk' = [stk EXCEPT ![r] = after.slot]
  /\ UNCHANGED <<payments, now, cb, limiter, hist, ins, val,
                 reply, exch, db, auth>>

\* The answer of /stk-push of routes/mpesaRoutes.js to a push outcome: a
\* status below 500 resolves, a ResponseCode other than "0" throws, and the
\* catch answers with the upstream status or 500.
RoutesPushAnswer(outcome, cid) ==
  CASE outcome = "accepted" -> StkResponse(200, cid, "success")
    [] outcome = "http_5xx" -> StkResponse(503, Undefined, "MPESA_API_ERROR")
    [] OTHER -> StkResponse(500, Undefined, "MPESA_API_ERROR")

\* The answer of stkPush of the mpesa router module: any 2xx body is passed on
\* as it came, any failure is answered 400.
RouterPushAnswer(outcome, cid) ==
  CASE outcome = "accepted" -> StkResponse(200, cid, "raw")
    [] outcome = "rejected" -> StkResponse(200, Undefined, "raw")
    [] outcome \in {"http_4xx", "http_5xx"} ->
         StkResponse(400, Undefined, "raw error")
    [] OTHER -> StkResponse(400, Undefined, "MPesa STK Push request failed")

\* The push endpoint answers the request in slot r; no handler stores a
\* payment.
PushResponseRetries(r) ==
  /\ stk[r].pc = "push"
  /\ \E outcome \in PushOutcomes, cid \in GatewayIds :
       stk' = [stk EXCEPT ![r] =
                 IF outcome # "accepted" /\ stk[r].pushes < 2
                   THEN [stk[r] EXCEPT !.pushes = stk[r].pushes + 1]
                   ELSE Answer(stk[r], IF stk[r].route = "routes"
                                         THEN RoutesPushAnswer(outcome, cid)
                                         ELSE RouterPushAnswer(outcome, cid))]
  /\ UNCHANGED <<payments, now, tokenCache, cb, limiter, hist, ins, val,
                 reply, exch, db, auth>>

PushResponse(r) ==
  /\ stk[r].pc = "push"
  /\ \E resp \in {IF stk[r].route = "routes"
                     THEN RoutesPushAnswer(outcome, cid)
                     ELSE RouterPushAnswer(outcome, cid) :
                   outcome \in PushOutcomes, cid \in GatewayIds} :
       stk' = [stk EXCEPT ![r] = Answer(stk[r], resp)]
  /\ UNCHANGED <<payments, now, tokenCache, cb, limiter, hist, ins, val,
                 reply, exch, db, auth>>

\* ------------------------------------------------------------ reply bodies
\* process.env.NODE_ENV
NodeEnvs == {"production", "development", "test"}

\* What varies in the gateway's answer from one run to the other.
GatewayDetails == {"detail-1", "detail-2"}

\* response.data of a 2xx answer, error.response.data of a 4xx or 5xx answer;
\* without an answer there is no data.
PushAnswerData(outcome, detail) ==
  CASE outcome = "accepted" ->
         [MerchantRequestID |-> detail, CheckoutRequestID |-> "ws_CO_2",
          ResponseCode |-> "0", ResponseDescription |-> "Success",
          CustomerMessage |-> "Success"]
    [] outcome = "rejected" ->
         [MerchantRequestID |-> "29115-34620561-1", ResponseCode |-> "1",
          ResponseDescription |-> detail]
    [] outcome \in {"http_4xx", "http_5xx"} ->
         [requestId |-> "11728-2929992-1", errorCode |-> "500.001.1001",
          errorMessage |-> detail]
    [] OTHER -> [none |-> Undefined]

\* The body /stk-push of routes/mpesaRoutes.js sends.  A 2xx or 4xx answer
\* resolves, and anything but ResponseCode "0" throws an Error with the
\* answer's ResponseDescription ("" when it has none); a 5xx answer or no
\* answer rejects, and errorData is error.response.data or error.message.
RoutesReplyBody(outcome, data, env) ==
  IF outcome = "accepted"
    THEN [status |-> "success",
          data |-> [checkoutRequestId |-> data.CheckoutRequestID,
                    responseCode |-> data.ResponseCode,
                    message |-> data.ResponseDescription]]
    ELSE [status |-> "error", code |-> "MPESA_API_ERROR",
          message |->
            IF env = "production" THEN "Payment processing failed"
            ELSE CASE outcome = "rejected" -> data.ResponseDescription
                   [] outcome = "http_4xx" -> ""
                   [] outcome = "http_5xx" -> data.errorMessage
                   [] OTHER -> "timeout of 15000ms exceeded",
          debug |-> IF env = "development" THEN "endpoint, timestamp"
                    ELSE Undefined]

\* The body stkPush of the mpesa router module sends: res.json(response.data)
\* for any 2xx answer, {error: error.response?.data || "..."} otherwise.
RouterReplyBody(outcome, data, env) ==
  CASE outcome \in {"accepted", "rejected"} -> data
    [] outcome \in {"http_4xx", "http_5xx"} -> [error |-> data]
    [] OTHER -> [error |-> "MPesa STK Push request failed"]

NoBody == [none |-> Undefined]

\* Two runs of one initiation that differ in the detail of the gateway's
\* answer at most.
Replies(route, env, outcome, d1, d2) ==
  [route |-> route, env |-> env, outcome |-> outcome,
   data |-> <<PushAnswerData(outcome, d1), PushAnswerData(outcome, d2)>>,
   body |-> <<NoBody, NoBody>>]

\* The handler of run i answers the caller.
SendReply(i) ==
  /\ reply.body[i] = NoBody
  /\ reply' = [reply EXCEPT !.body[i] =
                 IF reply.route = "routes"
                   THEN RoutesReplyBody(reply.outcome, reply.data[i], reply.env)
                   ELSE RouterReplyBody(reply.outcome, reply.data[i],
                                        reply.env)]
  /\ UNCHANGED <<payments, now, tokenCache, cb, stk, limiter, hist, ins, val,
                 exch, db, auth>>

\* --------------------------------------------------------------- validation
Phone1 == <<"2", "5", "4", "1", "1", "2", "3", "4", "5", "6", "7", "8">>

Phone8 == <<"2", "5", "4", "8", "1", "2", "3", "4", "5", "6", "7", "8">>

PhoneLong == Phone7 \o <<"9">>

PhoneLetters == <<"2", "5", "4", "7", "a", "b", "c", "d", "e", "f", "g", "h">>

\* The phones and amounts given to the validators.
ValidationPhones ==
  {Phone7, Phone1, Phone8, PhoneShort, PhoneLong, PhoneLetters}

ValidationAmounts ==
  {Amount(5000), Amount(10), Amount(5), Amount(0), Amount(0 - 500),
   NumericString(5000), NotANumber, BoolTrue, NoAmount}

NoValidation ==
  [phone |-> PhoneShort, amount |-> NotANumber, routes |-> "none",
   router |-> "none"]

\* The validation at the head of the /stk-push handler of
\* routes/mpesaRoutes.js, applied to the body.
ValidateRoutes ==
  /\ val.routes = "none"
  /\ val' = [val EXCEPT !.routes = RoutesValidate(val.phone, val.amount)]
  /\ UNCHANGED <<payments, now, tokenCache, cb, stk, limiter, hist, ins,
                 reply, exch, db, auth>>

\* validateSTKRequest and the checks at the head of stkPush of the mpesa
\* router module, applied to the body.
ValidateRouter ==
  /\ val.router = "none"
  /\ val' = [val EXCEPT !.router =
               IF ~ValidateSTKRequest(val.phone, val.amount) THEN "errors"
               ELSE IF ~StkPushChecks(val.phone, val.amount) THEN "error"
               ELSE "ok"]
  /\ UNCHANGED <<payments, now, tokenCache, cb, stk, limiter, hist, ins,
                 reply, exch, db, auth>>

\* ------------------------------------------------------------------ history
HistoryPath == "/api/v1/mpesa/history"

PayerPhone == "254712345678"

OtherPhone == "254711111111"

\* A value of req.query: absent, or the characters of the string given.
Absent == [present |-> FALSE, chars |-> <<>>]

Str(chars) == [present |-> TRUE, chars |-> chars]

\* A JavaScript number: an integer or NaN.
Num(n) == [nan |-> FALSE, n |-> n]

NaN == [nan |-> TRUE, n |-> 0]

DigitChars == <<"0", "1", "2", "3", "4", "5", "6", "7", "8", "9">>

DigitValue(c) == (CHOOSE i \in DOMAIN DigitChars : DigitChars[i] = c) - 1

\* The value of the digits chars[from..to], read in base 10.
RECURSIVE DigitsValue(_, _, _)
DigitsValue(chars, from, to) ==
  IF to < from THEN 0
  ELSE 10 * DigitsValue(chars, from, to - 1) + DigitValue(chars[to])

\* parseInt(string): an optional sign, then the longest run of digits; what
\* follows the run is ignored, and without a digit the result is NaN.
ParseInt(chars) ==
  LET signed == Len(chars) > 0 /\ chars[1] \in {"-", "+"}
      from == IF signed THEN 2 ELSE 1
      to == CHOOSE k \in (from - 1)..Len(chars) :
              /\ \A i \in from..k : chars[i] \in Digits
              /\ k < Len(chars) => chars[k + 1] \notin Digits
  IN IF to < from THEN NaN
     ELSE IF signed /\ chars[1] = "-"
       THEN Num(0 - DigitsValue(chars, from, to))
       ELSE Num(DigitsValue(chars, from, to))

\* const {page = 1, limit = 10} = req.query, then parseInt of each.
OptionOf(q, default) == IF q.present THEN ParseInt(q.chars) ELSE Num(default)

\* (options.page - 1) * options.limit
SkipWholePages(page, limit) ==
  IF page.nan \/ limit.nan THEN NaN ELSE Num(page.n * limit.n)

Skip(page, limit) ==
  IF page.nan \/ limit.nan THEN NaN ELSE Num((page.n - 1) * limit.n)

\* The filter {phone}.
MatchingAnyPhone(docs, phone) == docs

MatchingPhone(docs, phone) == {p \in docs : p.phone = phone}

\* sort({createdAt: -1}): the latest first; documents created at the same
\* time come in _id order.
Latest(docs) ==
  CHOOSE p \in docs :
    \A q \in docs :
      p.createdAt > q.createdAt \/ (p.createdAt = q.createdAt /\ p.id <= q.id)

RECURSIVE SortCreatedAtDesc(_)
SortCreatedAtDesc(docs) ==
  IF docs = {} THEN <<>>
  ELSE <<Latest(docs)>> \o SortCreatedAtDesc(docs \ {Latest(docs)})

\* The store refuses a find whose limit or skip is NaN or whose skip is
\* negative.
FindRefused(limit, skip) == limit.nan \/ skip.nan \/ skip.n < 0

\* Payment.find({phone}).sort(...).limit(limit).skip(skip): the store skips,
\* then limits; limit 0 is no limit, a negative limit is taken by its amount.
Find(docs, phone, limit, skip) ==
  LET sorted == SortCreatedAtDesc(MatchingPhone(docs, phone))
      rest == SubSeq(sorted, skip.n + 1, Len(sorted))
      most == IF limit.n < 0 THEN 0 - limit.n ELSE limit.n
  IN IF most = 0 \/ most >= Len(rest) THEN rest ELSE SubSeq(rest, 1, most)

\* Payment.countDocuments({phone})
CountDocuments(docs, phone) == Cardinality(MatchingPhone(docs, phone))

\* Math.ceil(total / limit): not finite when limit is 0 or NaN.
NotFinite == [finite |-> FALSE, n |-> 0]

CeilDiv(total, limit) ==
  IF limit.nan \/ limit.n = 0 THEN NotFinite
  ELSE IF limit.n > 0
    THEN [finite |-> TRUE, n |-> 0 - ((0 - total) \div limit.n)]
    ELSE [finite |-> TRUE, n |-> 0 - (total \div (0 - limit.n))]

\* The query strings sent for page and for limit.
PageQueries ==
  {Absent, Str(<<"1">>), Str(<<"2">>), Str(<<"3">>), Str(<<"4">>),
   Str(<<"0">>), Str(<<"-", "1">>), Str(<<"a", "b", "c">>)}

LimitQueries ==
  {Absent, Str(<<"1", "0">>), Str(<<"7">>), Str(<<"0">>), Str(<<"-", "5">>),
   Str(<<"1", "0", "1">>), Str(<<"a", "b", "c">>)}

IdleHistory ==
  [pc |-> "idle", phone |-> PayerPhone, pageQuery |-> Absent,
   limitQuery |-> Absent, page |-> NaN, limit |-> NaN, queried |-> FALSE,
   dbOp |-> "none", status |-> 0, data |-> <<>>, total |-> 0, totalPages |-> NotFinite]

\* GET /history/:phone of the mpesa router behind the app's limiter, up to its
\* await: read phone, page and limit, parse them and send find and
\* countDocuments to the store.
HistoryRequest ==
  /\ hist.pc \in {"idle", "done"}
  /\ \E ip \in limiter.senders :
       /\ CanSend(limiter, ip, now)
       /\ limiter' = AppArrive(limiter, ip, now)
       /\ \E phone \in {PayerPhone, OtherPhone} :
          \E pq \in PageQueries, lq \in LimitQueries :
            LET h == [IdleHistory EXCEPT !.phone = phone, !.pageQuery = pq,
                                         !.limitQuery = lq]
            IN hist' = IF AppLimited(limiter, ip, now)
                         THEN [h EXCEPT !.pc = "done", !.status = 429]
                         ELSE [h EXCEPT !.pc = "query", !.queried = TRUE,
                                        !.page = OptionOf(pq, 1),
                                        !.limit = OptionOf(lq, 10)]
  /\ UNCHANGED <<payments, now, tokenCache, cb, stk, ins, val,
                 reply, exch, db, auth>>

\* The store answers both queries and the handler sends the page; a refused
\* find rejects, and the rejection goes through asyncHandler to the global
\* error handler.
HistoryAnswer ==
  /\ hist.pc = "query"
  /\ LET skip == Skip(hist.page, hist.limit) IN
     hist' = IF FindRefused(hist.limit, skip)
               THEN [hist EXCEPT
                       !.pc = "done", !.dbOp = "refused",
                       !.status = GlobalErrorHandler(HistoryPath, 0).status]
               ELSE [hist EXCEPT
                       !.pc = "done", !.dbOp = "ok", !.status = 200,
                       !.data = Find(payments, hist.phone, hist.limit, skip),
                       !.total = CountDocuments(payments, hist.phone),
                       !.totalPages =
                          CeilDiv(CountDocuments(payments, hist.phone),
                                  hist.limit)]
  /\ UNCHANGED <<payments, now, tokenCache, cb, stk, limiter, ins, val,
                 reply, exch, db, auth>>

\* The store fails (connection lost, timeout): the rejection goes through
\* asyncHandler to the global error handler.
HistoryFails ==
  /\ hist.pc = "query"
  /\ hist' = [hist EXCEPT
                !.pc = "done", !.dbOp = "error",
                !.status = GlobalErrorHandler(HistoryPath, 0).status]
  /\ UNCHANGED <<payments, now, tokenCache, cb, stk, limiter, ins, val,
                 reply, exch, db, auth>>

\* ---------------------------------------------------------------- connectDB
\* The revisions of connectDB: the one server.js runs at start, the one of
\* swagger.js, which differs in its options only, and the one exported as a
\* module.
ConnectRevisions == {"server", "swagger", "module"}

\* connectDB is called without an argument: retries = 5, retries = 3 in the
\* exported revision.
DefaultRetries(revision) == IF revision = "module" THEN 3 ELSE 5

\* while (retries), while (retries > 0) in the exported revision.
LoopCondition(revision, retries) ==
  IF revision = "module" THEN retries > 0 ELSE retries # 0

\* retries--
NoDecrement(retries) == retries

Decrement(retries) == retries - 1

\* setTimeout(res, 5000), in seconds.
RetryDelay == 5

\* err.message of a failed mongoose.connect.
ConnectErrors == {"ECONNREFUSED", "Server selection timed out"}

StartConnect(revision) ==
  [pc |-> "loop", revision |-> revision, retries |-> DefaultRetries(revision),
   attempts |-> 0, log |-> <<>>]

\* The loop's condition: a connection attempt starts, or the loop is left; after
\* the loop the exported revision exits the process and the others return.
ConnectLoop ==
  /\ db.pc = "loop"
  /\ db' = IF LoopCondition(db.revision, db.retries)
             THEN [db EXCEPT !.pc = "connecting", !.attempts = db.attempts + 1]
             ELSE IF db.revision = "module" THEN [db EXCEPT !.pc = "exited"]
             ELSE [db EXCEPT !.pc = "returned"]
  /\ UNCHANGED <<payments, now, tokenCache, cb, stk, limiter, hist, ins, val,
                 reply, exch, auth>>

\* await mongoose.connect(...) resolves: connectDB returns.
ConnectSucceeds ==
  /\ db.pc = "connecting"
  /\ db' = [db EXCEPT !.pc = "connected"]
  /\ UNCHANGED <<payments, now, tokenCache, cb, stk, limiter, hist, ins, val,
                 reply, exch, auth>>

\* await mongoose.connect(...) rejects: log, retries--, then exit at 0 (not in
\* the exported revision) or wait.
ConnectFails ==
  /\ db.pc = "connecting"
  /\ \E err \in ConnectErrors :
       LET left == Decrement(db.retries)
       IN db' = [db EXCEPT
                   !.log = Append(db.log, err),
                   !.retries = left,
                   !.pc = IF db.revision # "module" /\ left = 0
                            THEN "exited" ELSE "waiting"]
  /\ UNCHANGED <<payments, now, tokenCache, cb, stk, limiter, hist, ins, val,
                 reply, exch, auth>>

\* The timer of the wait fires.
ConnectWait ==
  /\ db.pc = "waiting"
  /\ now' = now + RetryDelay
  /\ db' = [db EXCEPT !.pc = "loop"]
  /\ UNCHANGED <<payments, tokenCache, cb, stk, limiter, hist, ins, val,
                 reply, exch, auth>>

\* -------------------------------------------------------------------- login
\* LOCK_TIMES of incrementLoginAttempts, in seconds.
LockShort == 15 * 60

LockLong == 24 * 60 * 60

\* The attempts from which incrementLoginAttempts sets the long lock.
LongLockAttempts == 5

\* lockUntil of an account that has none: undefined > Date.now() is false.
NoLock == 0

\* user?.lockUntil > Date.now()
LockCheckReversed(lockUntil, t) == lockUntil # NoLock /\ lockUntil < t

Locked(lockUntil, t) == lockUntil > t

\* The fields of the user document the login route selects.
User(loginAttempts, lockUntil, isVerified) ==
  [loginAttempts |-> loginAttempts, lockUntil |-> lockUntil,
   isVerified |-> isVerified]

Passwords == {"correct", "wrong"}

NoUpdate == [kind |-> "none", lockUntil |-> NoLock, at |-> 0]

\* incrementLoginAttempts of the document read: {$inc: {loginAttempts: 1},
\* $set: {lockUntil}}, the long lock when this.loginAttempts + 1 >= 5.  The
\* revision that first returns when this.lockUntil is in the future builds the
\* same update here, where the route has found the document unlocked.
IncrementLoginAttempts(seen, t) ==
  [kind |-> "increment",
   lockUntil |-> IF seen.loginAttempts + 1 >= LongLockAttempts
                   THEN t + LockLong ELSE t + LockShort,
   at |-> t]

\* resetLoginAttempts: {$set: {loginAttempts: 0}, $unset: {lockUntil: 1}}
ResetLoginAttempts(seen, t) == [kind |-> "reset", lockUntil |-> NoLock, at |-> t]

\* updateOne(updates) applied to the stored document.
UpdateOne(user, update) ==
  IF update.kind = "increment"
    THEN [user EXCEPT !.loginAttempts = user.loginAttempts + 1,
                      !.lockUntil = update.lockUntil]
    ELSE [user EXCEPT !.loginAttempts = 0, !.lockUntil = NoLock]

IdleLogin ==
  [pc |-> "idle", password |-> "wrong", seen |-> User(0, NoLock, FALSE),
   compared |-> FALSE, update |-> NoUpdate, status |-> 0, code |-> "",
   token |-> FALSE]

LoginAnswer(l, status, code) ==
  [l EXCEPT !.pc = "done", !.status = status, !.code = code]

\* POST /api/v1/auth/login with both fields and the database connected, up to
\* the await of User.findOne.
LoginStart(r) ==
  /\ Free(auth.reqs, r)
  /\ auth.logins < MaxLogins
  /\ \E password \in Passwords :
       auth' = [auth EXCEPT
                  !.logins = auth.logins + 1,
                  !.reqs[r] = [IdleLogin EXCEPT !.pc = "find",
                                                !.password = password]]
  /\ UNCHANGED <<payments, now, tokenCache, cb, stk, limiter, hist, ins, val,
                 reply, exch, db>>

\* findOne answers with the document: the lock check, then the await of
\* bcrypt.compare.
LoginFound(r) ==
  /\ auth.reqs[r].pc = "find"
  /\ LET l == [auth.reqs[r] EXCEPT !.seen = auth.user]
     IN auth' = [auth EXCEPT !.reqs[r] =
                   IF Locked(auth.user.lockUntil, now)
                     THEN LoginAnswer(l, 403, "ACCOUNT_LOCKED")
                     ELSE [l EXCEPT !.pc = "compare"]]
  /\ UNCHANGED <<payments, now, tokenCache, cb, stk, limiter, hist, ins, val,
                 reply, exch, db>>

\* bcrypt.compare answers: a mismatch calls incrementLoginAttempts; a match of
\* an unverified account is answered 403; a match of a verified one signs the
\* token and calls resetLoginAttempts.
LoginCompared(r) ==
  /\ auth.reqs[r].pc = "compare"
  /\ LET l == [auth.reqs[r] EXCEPT !.compared = TRUE]
     IN auth' = [auth EXCEPT !.reqs[r] =
                   IF l.password # "correct"
                     THEN [l EXCEPT
                             !.pc = "update",
                             !.update = IncrementLoginAttempts(l.seen, now)]
                   ELSE IF ~l.seen.isVerified
                     THEN LoginAnswer(l, 403, "UNVERIFIED_EMAIL")
                     ELSE [l EXCEPT
                             !.pc = "update",
                             !.update = ResetLoginAttempts(l.seen, now)]]
  /\ UNCHANGED <<payments, now, tokenCache, cb, stk, limiter, hist, ins, val,
                 reply, exch, db>>

\* The store applies the update and the route answers: 401 after the
\* increment, the token after the reset.
LoginUpdated(r) ==
  /\ auth.reqs[r].pc = "update"
  /\ LET l == auth.reqs[r]
     IN auth' = [auth EXCEPT
                   !.user = UpdateOne(auth.user, l.update),
                   !.reqs[r] =
                     IF l.update.kind = "increment"
                       THEN LoginAnswer(l, 401, "INVALID_CREDENTIALS")
                       ELSE [LoginAnswer(l, 200, "success") EXCEPT
                               !.token = TRUE]]
  /\ UNCHANGED <<payments, now, tokenCache, cb, stk, limiter, hist, ins, val,
                 reply, exch, db>>

\* The store fails on the read or on the update: the catch answers 500.
LoginStoreFails(r) ==
  /\ auth.reqs[r].pc \in {"find", "update"}
  /\ auth' = [auth EXCEPT !.reqs[r] =
                LoginAnswer(auth.reqs[r], 500, "SERVER_ERROR")]
  /\ UNCHANGED <<payments, now, tokenCache, cb, stk, limiter, hist, ins, val,
                 reply, exch, db>>

\* Time passes: a minute, or the length of the short lock.
LoginElapse ==
  /\ auth.waits < MaxTicks
  /\ \E d \in {60, LockShort} : now' = now + d
  /\ auth' = [auth EXCEPT !.waits = auth.waits + 1]
  /\ UNCHANGED <<payments, tokenCache, cb, stk, limiter, hist, ins, val,
                 reply, exch, db>>

\* --------------------------------------------------------- specifications
\* Each specification explores one kind of traffic; the tables of the other
\* kinds hold no request and take none.
NoTraffic == <<>>

\* TheClient has sent nothing yet; the requests come from one-time clients.
NoHits ==
  LimiterState(LimiterStore(0, 0), LimiterStore(0, 0), 0, {OneTimeClient})


NoToken == [present |-> FALSE, token |-> UndefinedToken, expires |-> 0]

\* The collections the process may find at start.
InitialDocs(d) ==
  {PaymentDoc(d, StoredIds[d], s, Undefined, 0, 0) : s \in Statuses}
  \cup {PaymentDoc(d, StoredIds[d], "Completed", rc, 0, 0) : rc \in Receipts}

InitialCollections ==
  {docs \in SUBSET (UNION {InitialDocs(d) : d \in DocIds}) : UniqueIndex(docs)}

InitCallback ==
  /\ payments \in InitialCollections
  /\ now = 0
  /\ tokenCache = NoToken
  /\ cb = [r \in Reqs |-> IdleCallback]
  /\ stk = NoTraffic
  /\ limiter = NoHits
  /\ hist = NoTraffic
  /\ ins = NoTraffic
  /\ val = NoTraffic
  /\ reply = NoTraffic
  /\ exch = NoTraffic
  /\ db = NoTraffic
  /\ auth = NoTraffic

NextCallback ==
  \/ \E r \in Reqs : CallbackStart(r)
  \/ \E r \in Reqs : CallbackUpdate(r)
  \/ \E r \in Reqs : CallbackUpdateFails(r)
  \/ \E r \in Reqs : AppCallback(r)
  \/ Tick

SpecCallback == InitCallback /\ [][NextCallback]_vars

InitPush ==
  /\ payments = {}
  /\ now = 0
  /\ tokenCache = NoToken
  /\ cb = NoTraffic
  /\ stk = [r \in Reqs |-> IdleStk]
  /\ limiter = NoHits
  /\ hist = NoTraffic
  /\ ins = NoTraffic
  /\ val = NoTraffic
  /\ reply = NoTraffic
  /\ exch = NoTraffic
  /\ db = NoTraffic
  /\ auth = NoTraffic

NextPush ==
  \/ \E r \in Reqs : StkPushRoutes(r)
  \/ \E r \in Reqs : StkPushRouter(r)
  \/ \E r \in Reqs : ExchangeResponse(r)
  \/ \E r \in Reqs : PushResponse(r)
  \/ Tick

SpecPush == InitPush /\ [][NextPush]_vars

\* TheClient is one request short of a limit: of both limits after 49
\* initiations and 50 other requests to the mpesa router, of the router's
\* limit after 49 initiations.
NearLimit ==
  {LimiterState(LimiterStore(AppLimitMax - 1, RateLimitWindow),
                LimiterStore(RouterLimitMax - 1, RateLimitWindow),
                0, {TheClient}),
   LimiterState(LimiterStore(RouterLimitMax - 1, RateLimitWindow),
                LimiterStore(RouterLimitMax - 1, RateLimitWindow),
                0, {TheClient})}

InitLimit ==
  /\ payments = {}
  /\ now = 0
  /\ tokenCache = NoToken
  /\ cb = NoTraffic
  /\ stk = [r \in Reqs |-> IdleStk]
  /\ limiter \in NearLimit
  /\ hist = NoTraffic
  /\ ins = NoTraffic
  /\ val = NoTraffic
  /\ reply = NoTraffic
  /\ exch = NoTraffic
  /\ db = NoTraffic
  /\ auth = NoTraffic

NextLimit ==
  \/ \E r \in Reqs : StkPushRoutes(r)
  \/ \E r \in Reqs : StkPushRouter(r)
  \/ \E r \in Reqs : ExchangeResponse(r)
  \/ \E r \in Reqs : PushResponse(r)

\* All requests of this specification fall into the window that is open at
\* the start.
SpecLimit == InitLimit /\ [][NextLimit]_vars

\* A collection with the records of two payers: the document with _id i was
\* created at a time of its own, and the times do not follow the _ids.
HistoryDoc(i, phone) ==
  [PaymentDoc(i, "ws_CO_H" \o ToString(i), "Pending", Undefined,
              0 - ((i * 7) % 53), 0 - ((i * 7) % 53))
     EXCEPT !.phone = phone]

HistoryCollection(payer, other) ==
  {HistoryDoc(2 * i - 1, PayerPhone) : i \in 1..payer}
  \cup {HistoryDoc(2 * i, OtherPhone) : i \in 1..other}

HistoryCollections ==
  {HistoryCollection(payer, other) : payer \in {0, 4, 25}, other \in {0, 3}}

InitHistory ==
  /\ payments \in HistoryCollections
  /\ now = 0
  /\ tokenCache = NoToken
  /\ cb = NoTraffic
  /\ stk = NoTraffic
  /\ limiter = NoHits
  /\ hist = IdleHistory
  /\ ins = NoTraffic
  /\ val = NoTraffic
  /\ reply = NoTraffic
  /\ exch = NoTraffic
  /\ db = NoTraffic
  /\ auth = NoTraffic

NextHistory == HistoryRequest \/ HistoryAnswer \/ HistoryFails

SpecHistory == InitHistory /\ [][NextHistory]_vars

\* The validators applied to one body.
InitValidate ==
  /\ payments = {}
  /\ now = 0
  /\ tokenCache = NoToken
  /\ cb = NoTraffic
  /\ stk = NoTraffic
  /\ limiter = NoHits
  /\ hist = NoTraffic
  /\ ins = NoTraffic
  /\ \E phone \in ValidationPhones, amount \in ValidationAmounts :
       val = [NoValidation EXCEPT !.phone = phone, !.amount = amount]
  /\ reply = NoTraffic
  /\ exch = NoTraffic
  /\ db = NoTraffic
  /\ auth = NoTraffic

NextValidate == ValidateRoutes \/ ValidateRouter

SpecValidate == InitValidate /\ [][NextValidate]_vars

\* The store and its inserts.
InitStore ==
  /\ payments \in InitialCollections
  /\ now = 0
  /\ tokenCache = NoToken
  /\ cb = NoTraffic
  /\ stk = NoTraffic
  /\ limiter = NoHits
  /\ hist = NoTraffic
  /\ ins = [r \in Reqs |-> IdleInsert]
  /\ val = NoTraffic
  /\ reply = NoTraffic
  /\ exch = NoTraffic
  /\ db = NoTraffic
  /\ auth = NoTraffic

NextStore ==
  \/ \E r \in Reqs : InsertPending(r)
  \/ \E r \in Reqs : InsertApply(r)
  \/ Tick

SpecStore == InitStore /\ [][NextStore]_vars

\* Two runs of an initiation whose push the gateway answers.
InitReply ==
  /\ payments = {}
  /\ now = 0
  /\ tokenCache = NoToken
  /\ cb = NoTraffic
  /\ stk = NoTraffic
  /\ limiter = NoHits
  /\ hist = NoTraffic
  /\ ins = NoTraffic
  /\ val = NoTraffic
  /\ \E route \in {"routes", "router"}, env \in NodeEnvs :
     \E outcome \in PushOutcomes, d1 \in GatewayDetails, d2 \in GatewayDetails :
       reply = Replies(route, env, outcome, d1, d2)
  /\ exch = NoTraffic
  /\ db = NoTraffic
  /\ auth = NoTraffic

NextReply == \E i \in 1..2 : SendReply(i)

SpecReply == InitReply /\ [][NextReply]_vars

\* The calls of getAccessToken of one module, with the times of the exchange.
InitExchange ==
  /\ payments = {}
  /\ now = 0
  /\ tokenCache = NoToken
  /\ cb = NoTraffic
  /\ stk = NoTraffic
  /\ limiter = NoHits
  /\ hist = NoTraffic
  /\ ins = NoTraffic
  /\ val = NoTraffic
  /\ reply = NoTraffic
  /\ \E route \in {"routes", "router"} : exch = IdleExchange(route)
  /\ db = NoTraffic
  /\ auth = NoTraffic

NextExchange ==
  \/ ExchangeCall
  \/ GatewayIssues
  \/ Transit
  \/ ExchangeArrives
  \/ Tick

SpecExchange == InitExchange /\ [][NextExchange]_vars

\* One initiation's insert at a time, and the callbacks for its checkout id,
\* in any order.
InitRace ==
  /\ payments = {}
  /\ now = 0
  /\ tokenCache = NoToken
  /\ cb = [r \in Reqs |-> IdleCallback]
  /\ stk = NoTraffic
  /\ limiter = NoHits
  /\ hist = NoTraffic
  /\ ins = <<IdleInsert>>
  /\ val = NoTraffic
  /\ reply = NoTraffic
  /\ exch = NoTraffic
  /\ db = NoTraffic
  /\ auth = NoTraffic

NextRace ==
  \/ \E r \in Reqs : CallbackStart(r)
  \/ \E r \in Reqs : CallbackUpdate(r)
  \/ \E r \in Reqs : CallbackUpdateFails(r)
  \/ \E r \in DOMAIN ins : InsertPending(r)
  \/ \E r \in DOMAIN ins : InsertApply(r)

SpecRace == InitRace /\ [][NextRace]_vars

\* connectDB() at the start of the process; every step that can be taken is
\* taken in the end: a connection attempt resolves or rejects, a timer fires.
InitConnect ==
  /\ payments = {}
  /\ now = 0
  /\ tokenCache = NoToken
  /\ cb = NoTraffic
  /\ stk = NoTraffic
  /\ limiter = NoHits
  /\ hist = NoTraffic
  /\ ins = NoTraffic
  /\ val = NoTraffic
  /\ reply = NoTraffic
  /\ exch = NoTraffic
  /\ \E revision \in ConnectRevisions : db = StartConnect(revision)
  /\ auth = NoTraffic

NextConnect == ConnectLoop \/ ConnectSucceeds \/ ConnectFails \/ ConnectWait

SpecConnect == InitConnect /\ [][NextConnect]_vars /\ WF_vars(NextConnect)

\* The account at the start: without failed logins, one failed login short of
\* the long lock after its locks have run out, or locked by a failed login
\* made just now.
InitialUsers ==
  {User(0, NoLock, verified) : verified \in BOOLEAN}
  \cup {User(LongLockAttempts - 1, NoLock, verified) : verified \in BOOLEAN}
  \cup {User(1, LockShort, verified) : verified \in BOOLEAN}

\* Logins to one account.
InitLogin ==
  /\ payments = {}
  /\ now = 0
  /\ tokenCache = NoToken
  /\ cb = NoTraffic
  /\ stk = NoTraffic
  /\ limiter = NoHits
  /\ hist = NoTraffic
  /\ ins = NoTraffic
  /\ val = NoTraffic
  /\ reply = NoTraffic
  /\ exch = NoTraffic
  /\ db = NoTraffic
  /\ \E user \in InitialUsers :
       auth = [user |-> user, reqs |-> [r \in Reqs |-> IdleLogin],
               logins |-> 0, waits |-> 0]

NextLogin ==
  \/ \E r \in Reqs : LoginStart(r)
  \/ \E r \in Reqs : LoginFound(r)
  \/ \E r \in Reqs : LoginCompared(r)
  \/ \E r \in Reqs : LoginUpdated(r)
  \/ \E r \in Reqs : LoginStoreFails(r)
  \/ LoginElapse

SpecLogin == InitLogin /\ [][NextLogin]_vars

\* ----------------------------------------------- initiation and the cache
\* C1: an initiation with a valid phone and amount ends either with a
\* checkoutRequestId and exactly one new Pending record carrying it, or with an
\* error and no new record.
C1_InitiateCreatesOneRecord ==
  \A r \in Reqs :
    ( /\ stk[r].pc = "done"
      /\ ConfigPhoneRegex(stk[r].phone)
      /\ stk[r].amount.numeric /\ stk[r].amount.tenths >= 10 )
    => LET new == payments \ stk[r].docs0
           resp == stk[r].resp
       IN \/ /\ resp.status = 200
             /\ resp.checkoutRequestId # Undefined
             /\ Cardinality(new) = 1
             /\ \A p \in new : /\ p.status = "Pending"
                               /\ p.checkoutRequestId = resp.checkoutRequestId
          \/ /\ resp.status >= 400
             /\ new = {}

\* The claim's own reading of "the cached token's expiry is still in the
\* future" and of "after the expiry".
ExpiryInFuture(cache, t) == cache.present /\ cache.expires > t

ExpiryPassed(cache, t) == cache.present /\ cache.expires <= t

\* Slot r takes a new request in this step, and the request calls
\* getAccessToken.
CallsGetAccessToken(r) ==
  /\ stk[r].pc \in {"idle", "done"}
  /\ stk'[r] # stk[r]
  /\ stk'[r].route = "routes" \/ stk'[r].pc \in {"token", "push"}

\* C10: a getAccessToken call made while the cached expiry is in the future
\* sends no exchange request and returns the cached token; a call made with an
\* empty or expired cache sends exactly one, and none is ever sent again for
\* the same call.
C10_CacheDecidesExchange ==
  [][\A r \in Reqs :
       /\ CallsGetAccessToken(r)
            => IF ExpiryInFuture(tokenCache, now)
                 THEN /\ stk'[r].exchanges = 0
                      /\ stk'[r].pc # "token"
                      /\ stk'[r].pc = "push"
                           => stk'[r].token = tokenCache.token
                 ELSE stk'[r].exchanges = 1 /\ stk'[r].pc = "token"
       /\ stk'[r].exchanges <= 1]_vars

C10_Witness ==
  \E r1, r2 \in Reqs :
    /\ stk[r1].pc = "push" /\ stk[r1].exchanges = 0
    /\ stk[r1].token = IssuedToken(0)
    /\ ExpiryPassed(tokenCache, now)
    /\ stk[r2].pc = "token" /\ stk[r2].exchanges = 1

\* C11: when the exchange fails (network error, non-2xx status, a body without
\* access_token) the call fails and the cache stays as it was; whenever the
\* cache is written, it is written with a token the gateway issued.
C11_FailedExchangeLeavesCache ==
  [][\A r \in Reqs :
       (stk[r].pc = "token" /\ stk'[r].pc # "token")
       => \/ tokenCache' = NewCacheEntry(IssuedToken(now), now)
          \/ /\ tokenCache' = tokenCache
             /\ stk'[r].pc = "done"
             /\ stk'[r].resp.status >= 400
             /\ stk'[r].pushes = 0]_vars

\* The claim's own reading of valid input: the configured phone pattern and a
\* numeric amount of at least 1.
InvalidInput(s) ==
  ~(ConfigPhoneRegex(s.phone) /\ s.amount.numeric /\ s.amount.tenths >= 10)

\* C12: a request whose phone or amount is invalid is answered 400 in the step
\* that takes it, with no exchange and no push sent for it, and the step
\* leaves the token cache and the payment records as they were.
C12_InvalidRejectedFirst ==
  [][\A r \in Reqs :
       (stk'[r] # stk[r] /\ InvalidInput(stk'[r]))
       => /\ stk'[r].pc = "done"
          /\ stk'[r].resp.status = 400
          /\ stk'[r].exchanges = 0
          /\ stk'[r].pushes = 0
          /\ tokenCache' = tokenCache
          /\ payments' = payments]_vars

\* TheClient has made max requests in the window that is open at time t.
Exhausted(store, max, t) == t < store.resetTime /\ store.hits >= max

\* C13: once the client has made the maximum number of requests of a limiter
\* in the open window, every further request to /stk-push in that window is
\* answered 429, and no exchange and no push is sent for it.
C13_OverLimitAnswered429 ==
  [][\A r \in Reqs :
       ( /\ Free(stk, r)
         /\ limiter' # limiter
         /\ \/ Exhausted(limiter.app, AppLimitMax, now)
            \/ /\ stk'[r].route = "router"
               /\ Exhausted(limiter.router, RouterLimitMax, now) )
       => /\ stk'[r].pc = "done"
          /\ stk'[r].resp.status = 429
          /\ stk'[r].exchanges = 0
          /\ stk'[r].pushes = 0
          /\ tokenCache' = tokenCache]_vars

C13_Witness ==
  \E r1, r2 \in Reqs :
    /\ stk[r1].pc = "token"
    /\ stk[r2].pc = "done" /\ stk[r2].route = "router"
    /\ stk[r2].resp.status = 429 /\ stk[r2].exchanges = 0
    /\ limiter.router.hits = RouterLimitMax + 1
    /\ limiter.app.hits = RouterLimitMax + 1

\* The push was answered without a CheckoutRequestID: the gateway refused it
\* (non-zero ResponseCode) or the call failed.
PushRefused(r) ==
  /\ stk[r].pc = "push" /\ stk'[r].pc = "done"
  /\ stk'[r].resp.checkoutRequestId = Undefined

\* C14: when the gateway refuses the push or the call fails, the caller gets a
\* failure status, never a success response, and no record is persisted.
C14_GatewayFailureReported ==
  [][\A r \in Reqs :
       PushRefused(r) => stk'[r].resp.status >= 400 /\ payments' = payments]_vars

\* The exchange of the request in slot r failed: the request ends in the step
\* the exchange is answered, and not on its input.
TokenFailed(r) ==
  /\ stk[r].pc = "token" /\ stk'[r].pc = "done"
  /\ stk'[r].resp.kind \notin {"INVALID_PHONE", "INVALID_AMOUNT"}

\* C15: when token acquisition fails the request sends no push, persists no
\* record and is answered 502 or 503.
C15_TokenFailureStatus ==
  [][\A r \in Reqs :
       TokenFailed(r) => /\ stk'[r].pushes = 0
                         /\ payments' = payments
                         /\ stk'[r].resp.status \in {502, 503}]_vars

\* ---------------------------------------------------------------- the store
\* The claim's own reading of uniqueness: no two records share a
\* checkoutRequestId.
AtMostOnePerCheckoutId(docs) ==
  \A id \in {p.checkoutRequestId : p \in docs} :
    Cardinality({p \in docs : p.checkoutRequestId = id}) = 1

ClaimPhoneOk(p) ==
  /\ Len(p) = 12
  /\ SubSeq(p, 1, 3) = <<"2", "5", "4">>
  /\ p[4] \in {"7", "1"}
  /\ \A i \in 5..12 : p[i] \in Digits

ClaimAmountOk(a) ==
  a.type \in {"number", "string"} /\ a.numeric /\ a.tenths >= 10

\* C20: a validator lets a body pass only if the phone matches the pattern
\* and the amount is numeric and at least 1; the phone "12345" and the amounts
\* 0, negative and non-numeric are turned away with a 400.
C20_ValidationAcceptsOnlyValid ==
  /\ val.routes = "ok" => ClaimPhoneOk(val.phone) /\ ClaimAmountOk(val.amount)
  /\ val.router = "ok" => ClaimPhoneOk(val.phone) /\ ClaimAmountOk(val.amount)
  /\ ( \/ val.phone = PhoneShort
       \/ val.amount \in {Amount(0), Amount(0 - 500), NotANumber, BoolTrue,
                           NoAmount} )
     => /\ val.routes \in {"none", "INVALID_PHONE", "INVALID_AMOUNT"}
        /\ val.router \in {"none", "errors", "error"}

\* ------------------------------------------------------------------ history
\* The claim's own reading of a request in range.
InRange(h) ==
  /\ ~h.page.nan /\ h.page.n >= 1
  /\ ~h.limit.nan /\ h.limit.n \in 1..100

\* The records of a payer, and the position of one of them in the payer's
\* list, latest first.
RecordsOf(docs, phone) == {q \in docs : q.phone = phone}

Position(docs, d) ==
  1 + Cardinality({q \in RecordsOf(docs, d.phone) : q.createdAt > d.createdAt})

\* C17: a history request in range that the store serves is answered 200 with
\* exactly the records at positions (p-1)*l+1 .. min(p*l, total) of the
\* payer's list, with total, and with totalPages = ceil(total/l); a page
\* beyond the last is empty; for total 25 and limit 10 the pages 1..4 hold 10,
\* 10, 5 and 0 records and totalPages is 3.
C17_PageHoldsItsPositions ==
  (hist.pc = "done" /\ InRange(hist) /\ hist.dbOp # "error")
  => LET p == hist.page.n
         l == hist.limit.n
         total == Cardinality(RecordsOf(payments, hist.phone))
         first == (p - 1) * l + 1
         last == IF p * l < total THEN p * l ELSE total
     IN /\ hist.status = 200
        /\ hist.total = total
        /\ hist.totalPages.finite
        /\ hist.totalPages.n * l >= total
        /\ (hist.totalPages.n - 1) * l < total
        /\ Len(hist.data) = IF last < first THEN 0 ELSE last - first + 1
        /\ \A i \in 1..Len(hist.data) :
             /\ hist.data[i] \in RecordsOf(payments, hist.phone)
             /\ Position(payments, hist.data[i]) = first + i - 1
        /\ (total = 25 /\ l = 10 /\ p \in 1..4)
             => /\ Len(hist.data) = <<10, 10, 5, 0>>[p]
                /\ hist.totalPages.n = 3

C17_Witness ==
  /\ hist.pc = "done" /\ hist.status = 200
  /\ hist.page = Num(3) /\ hist.limit = Num(10)
  /\ hist.total = 25 /\ Len(hist.data) = 5
  /\ hist.totalPages.n = 3
  /\ Position(payments, hist.data[1]) = 21

\* C18: every record a history query returns has the phone of the request, the
\* records come latest first, and total counts exactly the records with that
\* phone.
C18_OnlyThePayersRecords ==
  (hist.pc = "done" /\ hist.status = 200)
  => /\ \A i \in 1..Len(hist.data) :
          /\ hist.data[i] \in payments
          /\ hist.data[i].phone = hist.phone
     /\ \A i, j \in 1..Len(hist.data) :
          i < j => hist.data[i].createdAt >= hist.data[j].createdAt
     /\ hist.total = Cardinality(RecordsOf(payments, hist.phone))

C18_Witness ==
  /\ hist.pc = "done" /\ hist.status = 200
  /\ Len(hist.data) >= 3
  /\ \E q \in payments : q.phone # hist.phone
  /\ \E i \in 1..(Len(hist.data) - 1) : hist.data[i].id > hist.data[i + 1].id
  /\ \E i \in 1..(Len(hist.data) - 1) : hist.data[i].id < hist.data[i + 1].id

\* C19: when the queries of a history request run, page is an integer of at
\* least 1 and limit an integer in 1..100; any other request is answered 400
\* and runs no query.
C19_OnlyRangedQueriesRun ==
  (hist.pc # "idle" /\ hist.status # 429)
  => /\ hist.queried => InRange(hist)
     /\ (hist.pc = "done" /\ ~hist.queried) => hist.status = 400

\* ------------------------------------------------- callback reconciliation
\* The request in slot r was handled by the router's /callback route.
RouterCallbackDone(c) == c.pc = "done" /\ c.path = CallbackPath

SignatureValid(c) == c.signature = Hmac(MpesaConsumerSecret, c.body)

\* Slot r finishes a request in this step.
Finishes(r) == cb'[r].pc = "done" /\ cb'[r] # cb[r]

DocById(docs, id) == CHOOSE p \in docs : p.id = id

\* C2: delivering the same successful callback again leaves the record exactly
\* as the first delivery left it: the later delivery updates no field.
C2_ReplayLeavesRecord ==
  [][\A r1, r2 \in Reqs :
       ( /\ r1 # r2
         /\ RouterCallbackDone(cb[r1]) /\ cb[r1].dbOp = "ok"
         /\ cb[r2].pc = "update" /\ cb[r2].body = cb[r1].body
         /\ Matching(payments, cb[r1].body.CheckoutRequestID) # {}
         /\ cb'[r2].pc = "done" /\ cb'[r2].dbOp = "ok" )
       => payments' = payments]_vars

\* C3: once a record is Completed or Failed, no step changes its status or its
\* receipt number.
C3_TerminalImmutable ==
  [][\A p \in payments :
       p.status \in {"Completed", "Failed"}
       => \E q \in payments' :
            /\ q.id = p.id
            /\ q.status = p.status
            /\ q.mpesaReceiptNumber = p.mpesaReceiptNumber]_vars

\* C4: a ResultCode 0 callback applied to a Pending record makes it Completed
\* and stores the receipt number the callback carries.
C4_SuccessStoresReceipt ==
  [][\A r \in Reqs : \A p \in payments :
       ( /\ cb[r].pc = "update" /\ cb'[r].pc = "done" /\ cb'[r].dbOp = "ok"
         /\ p.checkoutRequestId = cb[r].body.CheckoutRequestID
         /\ p.status = "Pending" )
       => \E q \in payments' :
            /\ q.id = p.id
            /\ q.status = "Completed"
            /\ q.mpesaReceiptNumber = cb[r].body.MpesaReceiptNumber]_vars

\* C5: a callback with a non-zero ResultCode handled for a Pending record makes
\* the record Failed.
C5_FailureMarksFailed ==
  [][\A r \in Reqs : \A p \in payments :
       ( /\ Finishes(r) /\ cb'[r].path = CallbackPath
         /\ cb'[r].body.wellFormed /\ cb'[r].body.ResultCode # 0
         /\ p.checkoutRequestId = cb'[r].body.CheckoutRequestID
         /\ p.status = "Pending" )
       => \E q \in payments' : q.id = p.id /\ q.status = "Failed"]_vars

\* C6: a callback whose signature does not match is answered 403 and runs no
\* store operation; every store update belongs to a request whose signature
\* was valid.
C6_SignatureGatesUpdate ==
  \A r \in Reqs :
    /\ (cb[r].pc = "done" /\ ~SignatureValid(cb[r]))
         => cb[r].resp.status = 403 /\ cb[r].dbOp = "none"
    /\ (cb[r].pc = "update" \/ cb[r].dbOp # "none") => SignatureValid(cb[r])

\* C7: a callback whose CheckoutRequestID matches no stored record is answered
\* with the standard acknowledgment and leaves the collection as it is.
C7_UnknownIdNoOp ==
  [][\A r \in Reqs :
       ( /\ Finishes(r) /\ cb'[r].path = CallbackPath
         /\ cb'[r].body.wellFormed /\ cb'[r].dbOp # "error"
         /\ cb'[r].resp # TooManyRequests
         /\ Matching(payments, cb'[r].body.CheckoutRequestID) = {} )
       => payments' = payments /\ cb'[r].resp = Ack]_vars

C7_Witness ==
  \E r \in Reqs :
    /\ RouterCallbackDone(cb[r]) /\ cb[r].dbOp = "ok"
    /\ cb[r].body.CheckoutRequestID = UnknownId
    /\ cb[r].resp = Ack
    /\ payments # {}

\* A callback request that got past the limiter and the route's
\* authentication.
Authenticated(c) ==
  /\ c.pc = "done"
  /\ c.resp # TooManyRequests
  /\ c.path = CallbackPath \/ SignatureValid(c)

\* C8: every authenticated callback is answered with ResultCode 0, also when
\* processing it raised an error.
C8_AlwaysAckZero ==
  \A r \in Reqs : Authenticated(cb[r]) => cb[r].resp.ResultCode = 0

ClaimFields(data) ==
  <<data.CheckoutRequestID, data.ResponseCode, data.ResponseDescription>>

\* C21: the body answered to an initiation holds no raw gateway payload: two
\* runs whose accepted answers agree on CheckoutRequestID, ResponseCode and
\* ResponseDescription get the same body, and in production two runs whose
\* failed answers differ in the gateway's error payload get the same body.
C21_NoRawPayload ==
  (reply.body[1] # NoBody /\ reply.body[2] # NoBody)
  => /\ ( /\ reply.outcome = "accepted"
          /\ ClaimFields(reply.data[1]) = ClaimFields(reply.data[2]) )
        => reply.body[1] = reply.body[2]
     /\ (reply.outcome # "accepted" /\ reply.env = "production")
        => reply.body[1] = reply.body[2]

C23_ExpiryBelowLifetime ==
  /\ tokenCache.present
       => tokenCache.expires
            < IssuedAt(tokenCache.token) + ExpiresIn(tokenCache.token)
  /\ (exch.pc = "done" /\ exch.fromCache)
       => exch.returnedAt < IssuedAt(exch.token) + ExpiresIn(exch.token)

\* ------------------------------------------------------- concurrent callers
\* A token the gateway issued, at a time up to t.
GatewayIssued(token, t) == token[1] = "access-token" /\ token[2] \in 0..t

\* C24: with getAccessToken calls in flight together, the cache always holds
\* a token with the expiry written with it, a token the gateway issued; and
\* every call that returns a token to its caller returns one the gateway
\* issued.
C24_ConcurrentCallsConsistent ==
  /\ tokenCache.present
       => /\ GatewayIssued(tokenCache.token, now)
          /\ tokenCache.expires = tokenCache.token[2] + TokenTTL
  /\ \A r \in Reqs : stk[r].pc = "push" => GatewayIssued(stk[r].token, now)

\* ------------------------------------------------------------ outbound calls
\* C25: one initiation sends at most one exchange request and at most one
\* push; the answer to an exchange sends no further exchange, and the answer
\* to a push ends the request without a further exchange or push.
C25_NoRetry ==
  [][\A r \in Reqs :
       /\ stk'[r].exchanges <= 1 /\ stk'[r].pushes <= 1
       /\ (stk[r].pc = "token" /\ stk'[r] # stk[r])
            => stk'[r].exchanges = stk[r].exchanges
       /\ (stk[r].pc = "push" /\ stk'[r] # stk[r])
            => /\ stk'[r].pc = "done"
               /\ stk'[r].exchanges = stk[r].exchanges
               /\ stk'[r].pushes = stk[r].pushes]_vars

C25_Witness ==
  \E r1, r2 \in Reqs :
    /\ stk[r1].pc = "done" /\ stk[r1].exchanges = 1 /\ stk[r1].pushes = 1
    /\ stk[r1].resp.status >= 500
    /\ stk[r2].pc = "done" /\ stk[r2].exchanges = 1 /\ stk[r2].pushes = 0
    /\ stk[r2].resp.status = 503

C27_ConnectTerminates ==
  /\ [](/\ db.attempts <= DefaultRetries(db.revision)
        /\ db.pc = "connected" => Len(db.log) = db.attempts - 1
        /\ db.pc = "exited"
             => /\ db.attempts = DefaultRetries(db.revision)
                /\ Len(db.log) = db.attempts
        /\ db.pc # "returned")
  /\ <>(db.pc \in {"connected", "exited"})

C27_Witness ==
  /\ db.revision = "server" /\ db.pc = "exited"
  /\ db.attempts = 5 /\ Len(db.log) = 5
  /\ now = 4 * RetryDelay

\* -------------------------------------------------------------------- login
\* The increment of the request in slot r is applied in this step.
IncrementApplied(r) ==
  /\ auth.reqs[r].pc = "update" /\ auth'.reqs[r].pc = "done"
  /\ auth.reqs[r].update.kind = "increment"
  /\ auth'.reqs[r].status = 401

\* C28: a failed login that leaves the account with fewer than 5 failed
\* attempts leaves it unlocked; the one that makes them 5 locks it for 15
\* minutes, and every later one for 24 hours.
C28_ProgressiveLockout ==
  [][\A r \in Reqs :
       IncrementApplied(r)
       => LET n == auth'.user.loginAttempts
              at == auth.reqs[r].update.at
          IN IF n < 5 THEN ~Locked(auth'.user.lockUntil, now)
             ELSE IF n = 5 THEN auth'.user.lockUntil = at + 15 * 60
             ELSE auth'.user.lockUntil = at + 24 * 60 * 60]_vars

C30_ValidationStagesAgree ==
  /\ val.router # "error"
  /\ val.router = "ok" => PayloadAmount(val.amount) >= 1
  /\ val.routes = "ok" => PayloadAmount(val.amount) >= 1

====
